---- MODULE Spec2Model ----
(***************************************************************************)
(* CareFlow demo API (src/api/main.py): three in-memory collections        *)
(* (SLOTS, BOOKINGS, MESSAGES) behind a static x-api-key comparison.       *)
(*                                                                         *)
(* Representation of Python values:                                        *)
(*   Optional[str]   a sequence of length <= 1: <<>> is None, <<s>> is s   *)
(*   timestamps      sequences of tokens, so that str.startswith is a      *)
(*                   prefix test and f-string formatting is concatenation  *)
(*   other strings   TLA+ strings; "" is the empty (falsy) string          *)
(*   dict            a function whose DOMAIN is the set of keys            *)
(*   list            a sequence                                            *)
(***************************************************************************)
EXTENDS Naturals, Sequences, FiniteSets, TLC

VARIABLES API_KEY, SLOTS, BOOKINGS, MESSAGES, resp, pc, loc

vars == <<API_KEY, SLOTS, BOOKINGS, MESSAGES, resp, pc, loc>>
data == <<SLOTS, BOOKINGS, MESSAGES>>

(***************************************************************************)
(* Bounds of the model.                                                    *)
(***************************************************************************)
\* how many of the seeded slots (in seeding order) the model keeps
MaxSeed == 3
\* cap on the length of the message log
MaxMessages == 2

(***************************************************************************)
(* Python helpers.                                                         *)
(***************************************************************************)
None == <<>>
Some(s) == <<s>>

\* truthiness of an Optional[str] whose payload is a TLA+ string
Truthy(o) == o # None /\ o[1] # ""
\* truthiness of an Optional[str] whose payload is a token sequence
TruthyTok(o) == o # None /\ o[1] # <<>>

\* str.startswith on token sequences
StartsWith(s, p) == Len(p) <= Len(s) /\ SubSeq(s, 1, Len(p)) = p

\* str.lower on the provider names the model uses
Lower(s) ==
    CASE s = "Dr. Lee"   -> "dr. lee"
      [] s = "DR. LEE"   -> "dr. lee"
      [] s = "NP Garcia" -> "np garcia"
      [] s = "Np Garcia" -> "np garcia"
      [] OTHER           -> s

\* l[:n]
Take(l, n) == SubSeq(l, 1, IF Len(l) < n THEN Len(l) ELSE n)

\* the elements of a list
Elems(l) == {l[i] : i \in 1..Len(l)}

\* next((x for x in l if ...), None): least index among the matching ones I, 0 for None
FirstIndex(I) == IF I = {} THEN 0 ELSE CHOOSE i \in I : \A j \in I : i <= j

\* mutant: removing an absent element is not an error
list_contains_always(l, x) == TRUE

\* x in l
list_contains(l, x) == \E i \in 1..Len(l) : l[i] = x

\* mutant: the element is not removed
list_remove_nothing(l, x) == l

\* list.remove(x): drops the first element equal to x; when none is equal the
\* list is left as it is and Python raises ValueError (see list_contains)
list_remove(l, x) ==
    LET i == FirstIndex({j \in 1..Len(l) : l[j] = x})
    IN  IF i = 0 THEN l ELSE SubSeq(l, 1, i - 1) \o SubSeq(l, i + 1, Len(l))

\* d[k] = v
dict_set(d, k, v) == [j \in DOMAIN d \cup {k} |-> IF j = k THEN v ELSE d[j]]

\* mutant: the key is not removed
dict_pop_keeps(d, k) == d

\* d.pop(k): the dict without k
dict_pop(d, k) == [j \in DOMAIN d \ {k} |-> d[j]]

(***************************************************************************)
(* Seeding (seed_slots).                                                   *)
(***************************************************************************)
\* (date.today() + timedelta(days=1)).isoformat(), one token
base_date == "2026-11-02"

\* f"{hour:02d}"
Digit(d) == CASE d = 0 -> "0" [] d = 1 -> "1" [] d = 2 -> "2" [] d = 3 -> "3"
              [] d = 4 -> "4" [] d = 5 -> "5" [] d = 6 -> "6" [] d = 7 -> "7"
              [] d = 8 -> "8" [] d = 9 -> "9"
TwoDigits(h) == <<Digit(h \div 10), Digit(h % 10)>>

\* f"{base_date}T{hour:02d}:MM:00"
Stamp(hour, mm) == <<base_date, "T">> \o TwoDigits(hour) \o <<":", mm, ":00">>

Hours == <<9, 10, 11, 13, 14, 15>>

\* the two slots appended by one pass of the loop body
SeedPair(hour) ==
    << [start |-> Stamp(hour, "00"), end |-> Stamp(hour, "40"), provider |-> "Dr. Lee"],
       [start |-> Stamp(hour, "00"), end |-> Stamp(hour, "20"), provider |-> "NP Garcia"] >>

\* the list seed_slots() builds, all 12 entries
AllSeeded ==
    LET F[i \in 0..Len(Hours)] ==
            IF i = 0 THEN <<>> ELSE F[i - 1] \o SeedPair(Hours[i])
    IN  F[Len(Hours)]

\* the list the model starts from: the first MaxSeed seeded slots
seed_slots == Take(AllSeeded, MaxSeed)

(***************************************************************************)
(* Generated identifiers: str(uuid.uuid4())[:8].  A uuid is a pair of its  *)
(* first 8 characters and the rest; two different uuids can share the      *)
(* first 8 characters.                                                     *)
(***************************************************************************)
Prefixes == {"1a2b3c4d", "9f8e7d6c"}
uuid4 == Prefixes \X {"-aaaa", "-bbbb"}
Str8(u) == u[1]

(***************************************************************************)
(* Request inputs.                                                         *)
(***************************************************************************)
SECRET == "s3cret"
KeyHeaders == {None, Some(""), Some(SECRET), Some("wrong")}
ConfiguredKeys == {None, Some(""), Some(SECRET)}

BogusStamp == Stamp(8, "00")
Seeded == Elems(seed_slots)

\* (start, end, provider) triples asked for: every seeded slot, the first seeded
\* interval under another provider and under a differently cased provider, and
\* an interval that is never seeded
Triples ==
    Seeded \cup
    { [seed_slots[1] EXCEPT !.provider = "NP Garcia"],
      [seed_slots[1] EXCEPT !.provider = "dr. lee"],
      [start |-> BogusStamp, end |-> BogusStamp, provider |-> "Dr. Lee"] }
Patients == {[patient_ref |-> "pt-1", visit_type |-> "colonoscopy"]}

BookRequest ==
    { [patient_ref |-> p.patient_ref, start |-> t.start, end |-> t.end,
       provider |-> t.provider, visit_type |-> p.visit_type] :
      p \in Patients, t \in Triples }
\* (new_start, new_end) pairs asked for: every seeded interval, a mix of two
\* seeded intervals, and one never seeded
Intervals ==
    { <<t.start, t.end>> : t \in Seeded } \cup
    { <<seed_slots[1].start, seed_slots[3].end>>, <<BogusStamp, BogusStamp>> }
RescheduleRequest ==
    { [booking_id |-> b, new_start |-> i[1], new_end |-> i[2]] :
      b \in Prefixes, i \in Intervals }
CancelRequest == [booking_id : Prefixes, reason : {None, Some("sick")}]
SendMessageRequest ==
    [channel : {"sms"}, to : {"+15550100"}, subject : {None},
     template_name : {None}, variables : {None}]
InsuranceVerifyRequest ==
    [payer : {"Aetna", "Cigna"}, cpt_code : {"45378", "45380"},
     visit_type : {None, Some("screening"), Some("Screening"), Some("colonoscopy")}]
\* request bodies as sent: visit_type may be left out
InsuranceBodies ==
    InsuranceVerifyRequest \cup [payer : {"Aetna", "Cigna"}, cpt_code : {"45378", "45380"}]
SlotQuery ==
    [date : {None, Some(<<>>), Some(<<base_date>>), Some(<<base_date, "T", "1">>)},
     provider : {None, Some(""), Some("dr. lee"), Some("Dr. Who")}]

\* The calls made: every request with the header a client that knows the secret
\* sends, and one request of each kind with every other header.
Calls(Requests, probe) ==
    ({Some(SECRET)} \X Requests) \cup ((KeyHeaders \ {Some(SECRET)}) \X {probe})
ListProbe == [date |-> None, provider |-> None]
BookProbe ==
    [patient_ref |-> "pt-1", start |-> seed_slots[1].start, end |-> seed_slots[1].end,
     provider |-> seed_slots[1].provider, visit_type |-> "colonoscopy"]
RescheduleProbe ==
    [booking_id |-> "1a2b3c4d", new_start |-> seed_slots[2].start,
     new_end |-> seed_slots[2].end]
CancelProbe == [booking_id |-> "1a2b3c4d", reason |-> None]
SendProbe ==
    [channel |-> "sms", to |-> "+15550100", subject |-> None,
     template_name |-> None, variables |-> None]
InsuranceProbe == [payer |-> "Aetna", cpt_code |-> "45378", visit_type |-> Some("screening")]

ListCalls == Calls(SlotQuery, ListProbe)
BookCalls == Calls(BookRequest, BookProbe)
RescheduleCalls == Calls(RescheduleRequest, RescheduleProbe)
CancelCalls == Calls(CancelRequest, CancelProbe)
SendCalls == Calls(SendMessageRequest, SendProbe)
InsuranceCalls == Calls(InsuranceVerifyRequest, InsuranceProbe)

(***************************************************************************)
(* Responses.  resp is the last response sent: its status code and body.   *)
(***************************************************************************)
Response(status, body) == [status |-> status, body |-> body]

\* raise HTTPException(status_code=..., detail=...)
HTTPException(status, detail) == Response(status, [detail |-> detail])

(***************************************************************************)
(* Security.                                                               *)
(***************************************************************************)
\* mutant: the header is only tested for presence, never compared
require_key_any(x_api_key) == Truthy(x_api_key)

\* mutant: the `not x_api_key` test is dropped
require_key_no_truthiness(x_api_key) == x_api_key = API_KEY

\* TRUE when require_key returns, FALSE when it raises the 401
require_key(x_api_key) == ~(~Truthy(x_api_key) \/ x_api_key # API_KEY)

Unauthorized == HTTPException(401, "Unauthorized: invalid x-api-key")

(***************************************************************************)
(* Calendar.                                                               *)
(***************************************************************************)
\* the slot a booking record frees: {"start": old["start"], ...}
slot_of(old) == [start |-> old.start, end |-> old.end, provider |-> old.provider]

\* mutant: the providers are compared as they are, without .lower()
list_slots_result_case_sensitive(date, provider) ==
    LET byDate == IF TruthyTok(date)
                  THEN SelectSeq(SLOTS, LAMBDA s : StartsWith(s.start, date[1]))
                  ELSE SLOTS
        byProv == IF Truthy(provider)
                  THEN SelectSeq(byDate, LAMBDA s : s.provider = provider[1])
                  ELSE byDate
    IN  Take(byProv, 20)

\* results[:20] after the two optional filters; a list comprehension with a
\* condition is SelectSeq
list_slots_result(date, provider) ==
    LET byDate == IF TruthyTok(date)
                  THEN SelectSeq(SLOTS, LAMBDA s : StartsWith(s.start, date[1]))
                  ELSE SLOTS
        byProv == IF Truthy(provider)
                  THEN SelectSeq(byDate,
                                 LAMBDA s : Lower(s.provider) = Lower(provider[1]))
                  ELSE byDate
    IN  Take(byProv, 20)

list_slots(x_api_key, date, provider) ==
    /\ UNCHANGED <<API_KEY, SLOTS, BOOKINGS, MESSAGES, pc, loc>>
    /\ resp' = IF ~require_key(x_api_key)
               THEN Unauthorized
               ELSE Response(200,
                             [slots |-> list_slots_result(date, provider)])

\* mutant: the provider is not compared
book_match_any_provider(req) ==
    FirstIndex({i \in 1..Len(SLOTS) : SLOTS[i].start = req.start /\ SLOTS[i].end = req.end})

\* index in SLOTS of book's match, 0 for None
book_match(req) ==
    FirstIndex({i \in 1..Len(SLOTS) : /\ SLOTS[i].start = req.start
                                      /\ SLOTS[i].end = req.end
                                      /\ SLOTS[i].provider = req.provider})

book(x_api_key, req) ==
    /\ UNCHANGED <<API_KEY, MESSAGES, pc, loc>>
    /\ IF ~require_key(x_api_key)
       THEN /\ resp' = Unauthorized
            /\ UNCHANGED <<SLOTS, BOOKINGS>>
       ELSE LET m == book_match(req)
            IN  IF m = 0
                THEN /\ resp' = HTTPException(400, "Slot not available")
                     /\ UNCHANGED <<SLOTS, BOOKINGS>>
                ELSE \E u \in uuid4 :
                       LET booking_id == Str8(u)
                       IN  /\ SLOTS' = list_remove(SLOTS, SLOTS[m])
                           /\ BOOKINGS' = dict_set(BOOKINGS, booking_id, req)
                           /\ resp' = Response(201,
                                               [booking_id |-> booking_id,
                                                status |-> "created",
                                                booking |-> req])

\* mutant: only the end is compared
reschedule_match_end_only(new_start, new_end) ==
    FirstIndex({i \in 1..Len(SLOTS) : SLOTS[i].end = new_end})

\* mutant: only the start is compared
reschedule_match_start_only(new_start, new_end) ==
    FirstIndex({i \in 1..Len(SLOTS) : SLOTS[i].start = new_start})

\* index in SLOTS of reschedule's match, 0 for None
reschedule_match(new_start, new_end) ==
    FirstIndex({i \in 1..Len(SLOTS) : SLOTS[i].start = new_start /\ SLOTS[i].end = new_end})

\* mutant: the booking is not written
overwrite_nothing(old, new_start, new_end) == old

\* mutant: only the start is overwritten
overwrite_start_only(old, new_start, new_end) == [old EXCEPT !.start = new_start]

\* old["start"], old["end"] = req.new_start, req.new_end
overwrite(old, new_start, new_end) ==
    [old EXCEPT !.start = new_start, !.end = new_end]

reschedule(x_api_key, req) ==
    /\ UNCHANGED <<API_KEY, MESSAGES, pc, loc>>
    /\ IF ~require_key(x_api_key)
       THEN /\ resp' = Unauthorized
            /\ UNCHANGED <<SLOTS, BOOKINGS>>
       ELSE IF req.booking_id \notin DOMAIN BOOKINGS
       THEN /\ resp' = HTTPException(404, "Booking not found")
            /\ UNCHANGED <<SLOTS, BOOKINGS>>
       ELSE LET m == reschedule_match(req.new_start, req.new_end)
                old == BOOKINGS[req.booking_id]
                new == overwrite(old, req.new_start, req.new_end)
            IN  IF m = 0
                THEN /\ resp' = HTTPException(400,
                                              "New slot not available")
                     /\ UNCHANGED <<SLOTS, BOOKINGS>>
                ELSE /\ SLOTS' = list_remove(Append(SLOTS, slot_of(old)), SLOTS[m])
                     /\ BOOKINGS' = dict_set(BOOKINGS, req.booking_id, new)
                     /\ resp' = Response(200,
                                         [booking_id |-> req.booking_id,
                                          status |-> "rescheduled", booking |-> new])

\* req.reason or "unspecified"
reason_or_unspecified(reason) == IF Truthy(reason) THEN reason[1] ELSE "unspecified"

cancel(x_api_key, req) ==
    /\ UNCHANGED <<API_KEY, MESSAGES, pc, loc>>
    /\ IF ~require_key(x_api_key)
       THEN /\ resp' = Unauthorized
            /\ UNCHANGED <<SLOTS, BOOKINGS>>
       ELSE IF req.booking_id \notin DOMAIN BOOKINGS
       THEN /\ resp' = HTTPException(404, "Booking not found")
            /\ UNCHANGED <<SLOTS, BOOKINGS>>
       ELSE LET old == BOOKINGS[req.booking_id]
            IN  /\ BOOKINGS' = dict_pop(BOOKINGS, req.booking_id)
                /\ SLOTS' = Append(SLOTS, slot_of(old))
                /\ resp' = Response(200,
                                    [booking_id |-> req.booking_id, status |-> "canceled",
                                     reason |-> reason_or_unspecified(req.reason)])

(***************************************************************************)
(* Messaging.                                                              *)
(***************************************************************************)
\* mutant: the record does not get the generated id
message_record_blank_id(req, u) ==
    [id |-> "", channel |-> req.channel, to |-> req.to, subject |-> req.subject,
     template |-> req.template_name, vars |-> req.variables]

\* record = {"id": str(uuid.uuid4())[:8], "channel": req.channel, ...}
message_record(req, u) ==
    [id |-> Str8(u), channel |-> req.channel, to |-> req.to, subject |-> req.subject,
     template |-> req.template_name, vars |-> req.variables]

\* the log is capped at MaxMessages entries to keep the state space finite
send_message(x_api_key, req) ==
    /\ UNCHANGED <<API_KEY, SLOTS, BOOKINGS, pc, loc>>
    /\ IF ~require_key(x_api_key)
       THEN /\ resp' = Unauthorized
            /\ UNCHANGED MESSAGES
       ELSE /\ Len(MESSAGES) < MaxMessages
            /\ \E u \in uuid4 :
                  /\ MESSAGES' = Append(MESSAGES, message_record(req, u))
                  /\ resp' = Response(202,
                                      [status |-> "queued", message_id |-> Str8(u)])

(***************************************************************************)
(* Insurance.                                                              *)
(***************************************************************************)
\* class InsuranceVerifyRequest: a body without visit_type gets the default
model_validate(body) ==
    IF "visit_type" \in DOMAIN body
    THEN body
    ELSE [payer |-> body.payer, cpt_code |-> body.cpt_code,
          visit_type |-> Some("screening")]

\* mutant: a null visit_type is taken for the default
insurance_verify_result_null_is_default(req) ==
    LET visit_type == IF req.visit_type = None THEN Some("screening") ELSE req.visit_type
        preauth_required == visit_type # Some("screening")
        copay_est == IF visit_type = Some("screening") THEN 100 ELSE 150
        steps == IF preauth_required
                 THEN <<"Submit indication & notes", "Get auth reference",
                        "Validity 30 days">>
                 ELSE <<"No pre-auth required">>
    IN  [covered |-> TRUE, copay_estimate |-> copay_est,
         preauth_required |-> preauth_required, steps |-> steps]

\* lines 160-169; the copay 100.0 / 150.0 is kept as the integer it equals
insurance_verify_result(req) ==
    LET preauth_required == req.visit_type # Some("screening")
        copay_est == IF req.visit_type = Some("screening") THEN 100 ELSE 150
        steps == IF preauth_required
                 THEN <<"Submit indication & notes", "Get auth reference",
                        "Validity 30 days">>
                 ELSE <<"No pre-auth required">>
    IN  [covered |-> TRUE, copay_estimate |-> copay_est,
         preauth_required |-> preauth_required, steps |-> steps]

insurance_verify(x_api_key, req) ==
    /\ UNCHANGED <<API_KEY, SLOTS, BOOKINGS, MESSAGES, pc, loc>>
    /\ resp' = IF ~require_key(x_api_key)
               THEN Unauthorized
               ELSE Response(200,
                             insurance_verify_result(req))

\* health takes no header parameter: whatever the request carries is ignored
health ==
    /\ UNCHANGED <<API_KEY, SLOTS, BOOKINGS, MESSAGES, pc, loc>>
    /\ resp' = Response(200,
                        [ok |-> TRUE, api_key_present |-> Truthy(API_KEY)])

(***************************************************************************)
(* The service handling one request at a time.                             *)
(***************************************************************************)
Procs == {1, 2}
IdleLocals == [req |-> None, match |-> None, old |-> None, status |-> 0]

Init ==
    /\ API_KEY \in ConfiguredKeys
    /\ SLOTS = seed_slots
    /\ BOOKINGS = <<>>
    /\ MESSAGES = <<>>
    /\ resp = Response(0, [detail |-> "startup"])
    /\ pc = [p \in Procs |-> "idle"]
    /\ loc = [p \in Procs |-> IdleLocals]

Next ==
    \/ \E c \in ListCalls : list_slots(c[1], c[2].date, c[2].provider)
    \/ \E c \in BookCalls : book(c[1], c[2])
    \/ \E c \in RescheduleCalls : reschedule(c[1], c[2])
    \/ \E c \in CancelCalls : cancel(c[1], c[2])
    \/ \E c \in SendCalls : send_message(c[1], c[2])
    \/ \E c \in InsuranceCalls : insurance_verify(c[1], c[2])
    \/ health

Spec == Init /\ [][Next]_vars

(***************************************************************************)
(* The calendar routes alone: the only handlers that touch SLOTS and       *)
(* BOOKINGS.                                                               *)
(***************************************************************************)
NextCalendar ==
    \/ \E c \in ListCalls : list_slots(c[1], c[2].date, c[2].provider)
    \/ \E c \in BookCalls : book(c[1], c[2])
    \/ \E c \in RescheduleCalls : reschedule(c[1], c[2])
    \/ \E c \in CancelCalls : cancel(c[1], c[2])

SpecCalendar == Init /\ [][NextCalendar]_vars

(***************************************************************************)
(* The calendar routes when uuid4()[:8] never comes out as the id of a     *)
(* booking that is active.                                                 *)
(***************************************************************************)
book_without_collision(x_api_key, req) ==
    /\ book(x_api_key, req)
    /\ resp'.status = 201 => resp'.body.booking_id \notin DOMAIN BOOKINGS

NextFreshIds ==
    \/ \E c \in ListCalls : list_slots(c[1], c[2].date, c[2].provider)
    \/ \E c \in BookCalls : book_without_collision(c[1], c[2])
    \/ \E c \in RescheduleCalls : reschedule(c[1], c[2])
    \/ \E c \in CancelCalls : cancel(c[1], c[2])

SpecFreshIds == Init /\ [][NextFreshIds]_vars

(***************************************************************************)
(* Every route called with every header, each with one fixed request.      *)
(***************************************************************************)
NextAuth ==
    \/ \E k \in KeyHeaders : list_slots(k, ListProbe.date, ListProbe.provider)
    \/ \E k \in KeyHeaders : book(k, BookProbe)
    \/ \E k \in KeyHeaders : reschedule(k, RescheduleProbe)
    \/ \E k \in KeyHeaders : cancel(k, CancelProbe)
    \/ \E k \in KeyHeaders : send_message(k, SendProbe)
    \/ \E k \in KeyHeaders : insurance_verify(k, InsuranceProbe)
    \/ health

SpecAuth == Init /\ [][NextAuth]_vars

(***************************************************************************)
(* The same, with insurance_verify called with every body and header.      *)
(***************************************************************************)
NextInsurance ==
    \/ NextAuth
    \/ \E k \in KeyHeaders, body \in InsuranceBodies :
          insurance_verify(k, model_validate(body))

SpecInsurance == Init /\ [][NextInsurance]_vars

(***************************************************************************)
(* Two reschedule requests served concurrently.  The handlers are plain    *)
(* functions run on worker threads with no lock, so their statements       *)
(* interleave.  loc[p] holds handler p's request, its locals `match` and   *)
(* `old`, and the status code it ended with (500: an exception other than  *)
(* HTTPException left the handler).                                        *)
(***************************************************************************)
AllIdle == \A p \in Procs : pc[p] = "idle"

Finish(p, status) ==
    /\ pc' = [pc EXCEPT ![p] = "done"]
    /\ loc' = [loc EXCEPT ![p].status = status]

\* lines 120-122: require_key (the header is the secret) and the membership test
rs_begin(p, req) ==
    /\ pc[p] = "idle"
    /\ require_key(Some(SECRET))
    /\ UNCHANGED <<API_KEY, SLOTS, BOOKINGS, MESSAGES, resp>>
    /\ IF req.booking_id \notin DOMAIN BOOKINGS
       THEN /\ pc' = [pc EXCEPT ![p] = "done"]
            /\ loc' = [loc EXCEPT ![p] = [IdleLocals EXCEPT !.req = Some(req), !.status = 404]]
       ELSE /\ pc' = [pc EXCEPT ![p] = "lookup"]
            /\ loc' = [loc EXCEPT ![p] = [IdleLocals EXCEPT !.req = Some(req)]]

\* lines 124-126: match = next(...); 400 when None
rs_lookup(p) ==
    /\ pc[p] = "lookup"
    /\ UNCHANGED <<API_KEY, SLOTS, BOOKINGS, MESSAGES, resp>>
    /\ LET req == loc[p].req[1]
           m == reschedule_match(req.new_start, req.new_end)
       IN  IF m = 0
           THEN Finish(p, 400)
           ELSE /\ pc' = [pc EXCEPT ![p] = "append"]
                /\ loc' = [loc EXCEPT ![p].match = Some(SLOTS[m])]

\* lines 128-129: old = BOOKINGS[id]; SLOTS.append(slot of old)
rs_append(p) ==
    /\ pc[p] = "append"
    /\ UNCHANGED <<API_KEY, BOOKINGS, MESSAGES, resp, loc>>
    /\ SLOTS' = Append(SLOTS, slot_of(BOOKINGS[loc[p].req[1].booking_id]))
    /\ pc' = [pc EXCEPT ![p] = "remove"]

\* line 130: SLOTS.remove(match); ValueError when no element equals match
rs_remove(p) ==
    /\ pc[p] = "remove"
    /\ UNCHANGED <<API_KEY, BOOKINGS, MESSAGES, resp>>
    /\ IF list_contains(SLOTS, loc[p].match[1])
       THEN /\ SLOTS' = list_remove(SLOTS, loc[p].match[1])
            /\ pc' = [pc EXCEPT ![p] = "write"]
            /\ UNCHANGED loc
       ELSE /\ UNCHANGED SLOTS
            /\ Finish(p, 500)

\* lines 131-132: overwrite start and end of the booking, answer 200
rs_write(p) ==
    /\ pc[p] = "write"
    /\ UNCHANGED <<API_KEY, SLOTS, MESSAGES, resp>>
    /\ LET req == loc[p].req[1]
       IN  BOOKINGS' = dict_set(BOOKINGS, req.booking_id,
                                overwrite(BOOKINGS[req.booking_id], req.new_start,
                                          req.new_end))
    /\ Finish(p, 200)

InitRace == Init /\ API_KEY = Some(SECRET)

\* bookings are made one at a time before the two reschedules arrive
NextRace ==
    \/ AllIdle /\ \E r \in BookRequest : book(Some(SECRET), r)
    \/ \E p \in Procs, r \in RescheduleRequest : rs_begin(p, r)
    \/ \E p \in Procs : rs_lookup(p)
    \/ \E p \in Procs : rs_append(p)
    \/ \E p \in Procs : rs_remove(p)
    \/ \E p \in Procs : rs_write(p)

SpecRace == InitRace /\ [][NextRace]_vars

(***************************************************************************)
(* Two book requests served concurrently, from the seeded state.           *)
(***************************************************************************)
\* lines 107-111: require_key (the header is the secret), match = next(...);
\* 400 when None
bk_lookup(p, req) ==
    /\ pc[p] = "idle"
    /\ require_key(Some(SECRET))
    /\ UNCHANGED <<API_KEY, SLOTS, BOOKINGS, MESSAGES, resp>>
    /\ LET m == book_match(req)
       IN  IF m = 0
           THEN /\ pc' = [pc EXCEPT ![p] = "done"]
                /\ loc' = [loc EXCEPT ![p] = [IdleLocals EXCEPT !.req = Some(req),
                                                                !.status = 400]]
           ELSE /\ pc' = [pc EXCEPT ![p] = "bk_remove"]
                /\ loc' = [loc EXCEPT ![p] = [IdleLocals EXCEPT !.req = Some(req),
                                                                !.match = Some(SLOTS[m])]]

\* line 113: SLOTS.remove(match); ValueError when no element equals match
bk_remove(p) ==
    /\ pc[p] = "bk_remove"
    /\ UNCHANGED <<API_KEY, BOOKINGS, MESSAGES, resp>>
    /\ IF list_contains(SLOTS, loc[p].match[1])
       THEN /\ SLOTS' = list_remove(SLOTS, loc[p].match[1])
            /\ pc' = [pc EXCEPT ![p] = "bk_insert"]
            /\ UNCHANGED loc
       ELSE /\ UNCHANGED SLOTS
            /\ Finish(p, 500)

\* lines 114-116: draw the id, store the booking, answer 201
bk_insert(p) ==
    /\ pc[p] = "bk_insert"
    /\ UNCHANGED <<API_KEY, SLOTS, MESSAGES, resp>>
    /\ \E u \in uuid4 : BOOKINGS' = dict_set(BOOKINGS, Str8(u), loc[p].req[1])
    /\ Finish(p, 201)

NextBookRace ==
    \/ \E p \in Procs, r \in BookRequest : bk_lookup(p, r)
    \/ \E p \in Procs : bk_remove(p)
    \/ \E p \in Procs : bk_insert(p)

SpecBookRace == InitRace /\ [][NextBookRace]_vars

(***************************************************************************)
(* Two cancel requests served concurrently, after bookings made one at a   *)
(* time.                                                                   *)
(***************************************************************************)
\* lines 136-138: require_key (the header is the secret) and the membership test
cn_begin(p, req) ==
    /\ pc[p] = "idle"
    /\ require_key(Some(SECRET))
    /\ UNCHANGED <<API_KEY, SLOTS, BOOKINGS, MESSAGES, resp>>
    /\ IF req.booking_id \notin DOMAIN BOOKINGS
       THEN /\ pc' = [pc EXCEPT ![p] = "done"]
            /\ loc' = [loc EXCEPT ![p] = [IdleLocals EXCEPT !.req = Some(req),
                                                            !.status = 404]]
       ELSE /\ pc' = [pc EXCEPT ![p] = "cn_pop"]
            /\ loc' = [loc EXCEPT ![p] = [IdleLocals EXCEPT !.req = Some(req)]]

\* line 139: old = BOOKINGS.pop(id); KeyError when the id is not a key
cn_pop(p) ==
    /\ pc[p] = "cn_pop"
    /\ UNCHANGED <<API_KEY, SLOTS, MESSAGES, resp>>
    /\ LET id == loc[p].req[1].booking_id
       IN  IF id \in DOMAIN BOOKINGS
           THEN /\ BOOKINGS' = dict_pop(BOOKINGS, id)
                /\ pc' = [pc EXCEPT ![p] = "cn_append"]
                /\ loc' = [loc EXCEPT ![p].old = Some(BOOKINGS[id])]
           ELSE /\ UNCHANGED BOOKINGS
                /\ Finish(p, 500)

\* lines 141-142: SLOTS.append(slot of old), answer 200
cn_append(p) ==
    /\ pc[p] = "cn_append"
    /\ UNCHANGED <<API_KEY, BOOKINGS, MESSAGES, resp>>
    /\ SLOTS' = Append(SLOTS, slot_of(loc[p].old[1]))
    /\ Finish(p, 200)

\* bookings are made one at a time before the two cancels arrive
NextCancelRace ==
    \/ AllIdle /\ \E r \in BookRequest : book(Some(SECRET), r)
    \/ \E p \in Procs, r \in CancelRequest : cn_begin(p, r)
    \/ \E p \in Procs : cn_pop(p)
    \/ \E p \in Procs : cn_append(p)

SpecCancelRace == InitRace /\ [][NextCancelRace]_vars

(***************************************************************************)
(* Vocabulary of the properties.                                           *)
(***************************************************************************)
\* the header is the configured, non-empty secret
Authorized(k) == k # None /\ k[1] # "" /\ k = API_KEY
\* the header is absent, empty or not exactly the configured secret
Rejected(k) == k = None \/ k = Some("") \/ k # API_KEY

InList(l, t) == \E i \in 1..Len(l) : l[i] = t
Active == DOMAIN BOOKINGS

\* the "status" field of a response body, "" when it has none
Outcome(r) == IF "status" \in DOMAIN r.body THEN r.body.status ELSE ""
Created(r) == r.status = 201 /\ Outcome(r) = "created"
Rescheduled(r) == r.status = 200 /\ Outcome(r) = "rescheduled"
Canceled(r) == r.status = 200 /\ Outcome(r) = "canceled"
SlotUnavailable == HTTPException(400, "Slot not available")
NewSlotUnavailable == HTTPException(400, "New slot not available")
BookingNotFound == HTTPException(404, "Booking not found")

\* a step of a protected operation whose request carries header k
ProtectedProbe(k) ==
    \/ list_slots(k, ListProbe.date, ListProbe.provider)
    \/ book(k, BookProbe)
    \/ reschedule(k, RescheduleProbe)
    \/ cancel(k, CancelProbe)
    \/ send_message(k, SendProbe)
    \/ insurance_verify(k, InsuranceProbe)

(***************************************************************************)
(* C1: handling requests one at a time, no slot of the pool ever has the   *)
(* (start, end, provider) triple of an active booking.                     *)
(***************************************************************************)
C1_NoSlotOfActiveBooking ==
    \A i \in 1..Len(SLOTS), b \in Active : SLOTS[i] # slot_of(BOOKINGS[b])

\* a booking is active after a reschedule, next to a non-empty pool
C1_Witness == Rescheduled(resp) /\ Active # {} /\ Len(SLOTS) > 0

(***************************************************************************)
(* C2: a protected operation whose request has an absent, empty or wrong   *)
(* x-api-key answers 401 whatever else the request holds, and changes      *)
(* neither the slot pool, the booking table nor the message log.           *)
(***************************************************************************)
C2_RejectedLeavesNoTrace ==
    [][\A k \in KeyHeaders :
         (Rejected(k) /\ ProtectedProbe(k)) => (resp' = Unauthorized /\ UNCHANGED data)]_vars

\* a 401 answered while a secret is configured and a booking is active
C2_Witness == resp = Unauthorized /\ API_KEY = Some(SECRET) /\ Active # {}

C4_CancelEffect ==
    [][\A r \in CancelRequest :
         (Authorized(API_KEY) /\ r.booking_id \in Active /\ cancel(API_KEY, r))
            => /\ Canceled(resp')
               /\ r.booking_id \notin DOMAIN BOOKINGS'
               /\ SLOTS' = Append(SLOTS, slot_of(BOOKINGS[r.booking_id]))
               /\ InList((list_slots_result(None, None))',
                         slot_of(BOOKINGS[r.booking_id]))]_vars

C4_CanceledIdStaysUnknown ==
    [][/\ \A r \in CancelRequest :
            (Authorized(API_KEY) /\ r.booking_id \in Active /\ cancel(API_KEY, r))
               => /\ Canceled(resp')
                  /\ r.booking_id \notin DOMAIN BOOKINGS'
                  /\ SLOTS' = Append(SLOTS, slot_of(BOOKINGS[r.booking_id]))
                  /\ InList((list_slots_result(None, None))',
                            slot_of(BOOKINGS[r.booking_id]))
       /\ Canceled(resp) => resp.body.booking_id \notin DOMAIN BOOKINGS']_vars

(***************************************************************************)
(* C5: an authorized reschedule naming an unknown id answers 404 whatever  *)
(* the new start and end; naming a known id but an interval no slot of the *)
(* pool has, it answers 400 "New slot not available"; and a reschedule     *)
(* that does not answer 200 leaves pool, bookings and messages as they     *)
(* were.                                                                   *)
(***************************************************************************)
HasInterval(l, new_start, new_end) ==
    \E i \in 1..Len(l) : l[i].start = new_start /\ l[i].end = new_end

C5_FailedRescheduleChangesNothing ==
    [][/\ \A r \in RescheduleRequest :
            (Authorized(API_KEY) /\ reschedule(API_KEY, r))
               => /\ r.booking_id \notin Active => resp' = BookingNotFound
                  /\ (r.booking_id \in Active /\ ~HasInterval(SLOTS, r.new_start, r.new_end))
                        => resp' = NewSlotUnavailable
                  /\ resp'.status # 200 => UNCHANGED data
       /\ (resp'.status # 200 /\ data' # data)
            => \A c \in RescheduleCalls : ~reschedule(c[1], c[2])]_vars

\* a reschedule of an active booking was refused for want of the new slot
C5_Witness == resp = NewSlotUnavailable /\ Active # {} /\ Len(SLOTS) > 0

(***************************************************************************)
(* C6: a successful reschedule of b takes exactly one slot with the new    *)
(* start and end out of the pool, appends b's previous triple at the end,  *)
(* overwrites b's start and end, and leaves b's other fields, the set of   *)
(* identifiers and every other booking as they were.                       *)
(***************************************************************************)
Without(l, i) == SubSeq(l, 1, i - 1) \o SubSeq(l, i + 1, Len(l))

C6_RescheduleFrame ==
    [][\A r \in RescheduleRequest :
         (Rescheduled(resp') /\ reschedule(API_KEY, r))
            => LET b == r.booking_id
                   old == BOOKINGS[b]
               IN  /\ \E i \in 1..Len(SLOTS) :
                        /\ SLOTS[i].start = r.new_start
                        /\ SLOTS[i].end = r.new_end
                        /\ SLOTS' = Append(Without(SLOTS, i), slot_of(old))
                   /\ DOMAIN BOOKINGS' = DOMAIN BOOKINGS
                   /\ BOOKINGS'[b] = [patient_ref |-> old.patient_ref,
                                      start |-> r.new_start, end |-> r.new_end,
                                      provider |-> old.provider,
                                      visit_type |-> old.visit_type]
                   /\ \A c \in DOMAIN BOOKINGS \ {b} : BOOKINGS'[c] = BOOKINGS[c]
                   /\ MESSAGES' = MESSAGES]_vars

\* a reschedule succeeded while another booking was active
C6_Witness == Rescheduled(resp) /\ Cardinality(Active) >= 2

(***************************************************************************)
(* C7: an identifier becomes active only by a successful book returning    *)
(* it, stays active through every reschedule, becomes absent only by (and  *)
(* always by) a successful cancel naming it; while it is absent every      *)
(* authorized reschedule or cancel naming it answers 404; no other step    *)
(* changes which identifiers are active.                                   *)
(***************************************************************************)
C7_Lifecycle ==
    [][/\ \A b \in Prefixes :
            /\ (b \notin Active /\ b \in DOMAIN BOOKINGS')
                  => (Created(resp') /\ resp'.body.booking_id = b)
            /\ (b \in Active /\ b \notin DOMAIN BOOKINGS')
                  => (Canceled(resp') /\ resp'.body.booking_id = b)
       /\ Created(resp') => resp'.body.booking_id \in DOMAIN BOOKINGS'
       /\ Canceled(resp') => resp'.body.booking_id \notin DOMAIN BOOKINGS'
       /\ DOMAIN BOOKINGS' # DOMAIN BOOKINGS
            => \A c \in RescheduleCalls : ~reschedule(c[1], c[2])
       /\ \A r \in RescheduleRequest :
            (Authorized(API_KEY) /\ r.booking_id \notin Active /\ reschedule(API_KEY, r))
               => resp' = BookingNotFound
       /\ \A r \in CancelRequest :
            (Authorized(API_KEY) /\ r.booking_id \notin Active /\ cancel(API_KEY, r))
               => resp' = BookingNotFound]_vars

\* an identifier went through book and cancel and is absent again
C7_Witness == Canceled(resp) /\ resp.body.booking_id \notin Active

(***************************************************************************)
(* C8: a successful book returns an identifier no earlier book returned;   *)
(* in particular never the identifier of a booking that is still active,   *)
(* whose record it would overwrite.                                        *)
(***************************************************************************)
C8_BookReturnsFreshId ==
    [][Created(resp') => resp'.body.booking_id \notin Active]_vars

(***************************************************************************)
(* C9: two concurrent reschedules of different bookings that matched the   *)
(* same new slot: once both have ended, one answered 200, the other died   *)
(* at SLOTS.remove (500) after appending its old slot, and the pool holds  *)
(* the triple of a booking that is still active.                           *)
(***************************************************************************)
SlotOfActiveBookingInPool ==
    \E i \in 1..Len(SLOTS), b \in Active : SLOTS[i] = slot_of(BOOKINGS[b])

BothMatchedSameSlot(p, q) ==
    /\ p # q
    /\ pc[p] = "done" /\ pc[q] = "done"
    /\ loc[p].match # None /\ loc[p].match = loc[q].match
    /\ loc[p].req[1].booking_id # loc[q].req[1].booking_id

C9_RaceBreaksPoolInvariant ==
    \A p, q \in Procs :
        BothMatchedSameSlot(p, q)
            => /\ {loc[p].status, loc[q].status} = {200, 500}
               /\ SlotOfActiveBookingInPool

\* both handlers ended after matching the same slot, and the pool holds the
\* triple of an active booking
C9_Witness ==
    /\ \E p, q \in Procs : BothMatchedSameSlot(p, q)
    /\ SlotOfActiveBookingInPool

(***************************************************************************)
(* C10: with no secret configured (API_KEY unset or empty) the only        *)
(* responses ever sent are the 401 and health's answer with                *)
(* api_key_present = false, whatever header the requests carry, and the    *)
(* collections stay as seeded.                                             *)
(***************************************************************************)
C10_NoSecretAllUnauthorized ==
    (API_KEY = None \/ API_KEY = Some(""))
        => /\ resp \in {Response(0, [detail |-> "startup"]), Unauthorized,
                        Response(200, [ok |-> TRUE, api_key_present |-> FALSE])}
           /\ SLOTS = seed_slots /\ Active = {} /\ MESSAGES = <<>>

\* a 401 answered by a service that has no secret
C10_Witness == API_KEY = None /\ resp = Unauthorized

(***************************************************************************)
(* C11: the message log only grows, one record at a time and at its end:   *)
(* the records already in it keep their place and content under every      *)
(* step; the log grows exactly when a 202 "queued" is answered, whose      *)
(* message_id is the id of the appended record; an authorized send_message *)
(* appends one record made of its request and leaves pool and bookings     *)
(* unchanged.                                                              *)
(***************************************************************************)
Queued(r) == r.status = 202 /\ Outcome(r) = "queued"
Last(l) == l[Len(l)]

C11_LogAppendOnly ==
    [][/\ Len(MESSAGES') >= Len(MESSAGES)
       /\ Len(MESSAGES') <= Len(MESSAGES) + 1
       /\ SubSeq(MESSAGES', 1, Len(MESSAGES)) = MESSAGES
       /\ MESSAGES' # MESSAGES
            => /\ Queued(resp')
               /\ resp'.body.message_id = Last(MESSAGES').id
               /\ UNCHANGED <<SLOTS, BOOKINGS>>
       /\ Queued(resp') => Len(MESSAGES') = Len(MESSAGES) + 1
       /\ \A r \in SendMessageRequest :
            (Authorized(API_KEY) /\ send_message(API_KEY, r))
               => /\ Len(MESSAGES') = Len(MESSAGES) + 1
                  /\ Queued(resp')
                  /\ resp'.body.message_id = Last(MESSAGES').id
                  /\ Last(MESSAGES').id \in Prefixes
                  /\ [f \in {"channel", "to", "subject", "template", "vars"} |->
                         Last(MESSAGES')[f]]
                       = [channel |-> r.channel, to |-> r.to, subject |-> r.subject,
                          template |-> r.template_name, vars |-> r.variables]
                  /\ UNCHANGED <<SLOTS, BOOKINGS>>]_vars

\* a second record was appended behind the first, next to an active booking
C11_Witness == Queued(resp) /\ Len(MESSAGES) = 2 /\ Active # {}

(***************************************************************************)
(* C12: an authorized list_slots answers 200 with the slots of the pool    *)
(* that satisfy every supplied filter (start beginning with the date,      *)
(* provider equal ignoring case), in pool order, at most the first 20 of   *)
(* them; and a list_slots step changes neither pool, bookings nor log.     *)
(* A filter is supplied when the parameter holds a non-empty string.       *)
(***************************************************************************)
BeginsWith(stamp, d) ==
    /\ Len(d) <= Len(stamp)
    /\ \A k \in 1..Len(d) : stamp[k] = d[k]

Satisfies(slot, q) ==
    /\ (q.date # None /\ q.date[1] # <<>>) => BeginsWith(slot.start, q.date[1])
    /\ (q.provider # None /\ q.provider[1] # "")
          => Lower(slot.provider) = Lower(q.provider[1])

\* the k-th smallest member of a set of indices
Kth(I, k) == CHOOSE i \in I : Cardinality({j \in I : j < i}) = k - 1

IsListingOf(out, pool, q) ==
    LET I == {i \in 1..Len(pool) : Satisfies(pool[i], q)}
    IN  /\ Len(out) = IF Cardinality(I) < 20 THEN Cardinality(I) ELSE 20
        /\ \A k \in 1..Len(out) : out[k] = pool[Kth(I, k)]

HasSlots(r) == r.status = 200 /\ "slots" \in DOMAIN r.body

C12_ListingIsFilteredPool ==
    [][/\ (HasSlots(resp') /\ resp' # resp)
            => \A q \in SlotQuery :
                 (Authorized(API_KEY) /\ list_slots(API_KEY, q.date, q.provider))
                    => IsListingOf(resp'.body.slots, SLOTS, q)
       /\ (~HasSlots(resp') /\ resp' # resp /\ Authorized(API_KEY) /\ data' = data)
            => \A q \in SlotQuery : ~list_slots(API_KEY, q.date, q.provider)
       /\ data' # data
            => \A c \in ListCalls : ~list_slots(c[1], c[2].date, c[2].provider)]_vars

\* a filter kept some slots and dropped others of a pool whose order is no
\* longer the seeded one
C12_Witness ==
    /\ resp.status = 200
    /\ "slots" \in DOMAIN resp.body
    /\ Len(resp.body.slots) > 0
    /\ Len(resp.body.slots) < Len(SLOTS)
    /\ Len(SLOTS) > 1
    /\ SLOTS[Len(SLOTS)] = seed_slots[1]

(***************************************************************************)
(* C13: an authorized insurance_verify answers 200 with a body fixed by    *)
(* visit_type alone: for "screening" exactly (also when the body leaves    *)
(* visit_type out) covered, no pre-auth, copay 100 and the one step; for   *)
(* anything else (another case, another visit, null) covered, pre-auth,    *)
(* copay 150 and the three steps; whatever payer, cpt_code and the state   *)
(* of the service; and the step changes no collection.                     *)
(***************************************************************************)
ScreeningVerdict ==
    [covered |-> TRUE, preauth_required |-> FALSE, copay_estimate |-> 100,
     steps |-> <<"No pre-auth required">>]
OtherVerdict ==
    [covered |-> TRUE, preauth_required |-> TRUE, copay_estimate |-> 150,
     steps |-> <<"Submit indication & notes", "Get auth reference", "Validity 30 days">>]

\* the body the claim promises for a request body as sent
Promised(body) ==
    IF "visit_type" \notin DOMAIN body THEN ScreeningVerdict
    ELSE IF body.visit_type = Some("screening") THEN ScreeningVerdict
    ELSE OtherVerdict

HasVerdict(r) == r.status = 200 /\ "covered" \in DOMAIN r.body

C13_VerdictByVisitTypeOnly ==
    [][/\ (HasVerdict(resp') /\ resp' # resp)
            => \A body \in InsuranceBodies :
                 (Authorized(API_KEY) /\ insurance_verify(API_KEY, model_validate(body)))
                    => resp'.body = Promised(body)
       /\ (~HasVerdict(resp') /\ resp' # resp /\ Authorized(API_KEY) /\ data' = data)
            => \A body \in InsuranceBodies :
                 ~insurance_verify(API_KEY, model_validate(body))
       /\ data' # data
            => \A k \in KeyHeaders, body \in InsuranceBodies :
                 ~insurance_verify(k, model_validate(body))]_vars

\* the pre-auth verdict was given while a booking is active and a message
\* is in the log
C13_Witness == resp = Response(200, OtherVerdict) /\ Active # {} /\ Len(MESSAGES) > 0

(***************************************************************************)
(* C14: an authorized reschedule of an active booking answers 200 exactly  *)
(* when some slot of the pool has the new start and the new end, whatever  *)
(* its provider, and 400 otherwise; on 200 the slot taken out is the one   *)
(* of least index with that start and end, and the booking keeps the       *)
(* provider it had, also when the slot taken out had another provider.     *)
(***************************************************************************)
WithInterval(l, new_start, new_end) ==
    {i \in 1..Len(l) : l[i].start = new_start /\ l[i].end = new_end}
Least(I) == CHOOSE i \in I : \A j \in I : i <= j

C14_RescheduleIgnoresProvider ==
    [][(resp' # resp \/ data' # data)
         => \A r \in RescheduleRequest :
              (Authorized(API_KEY) /\ r.booking_id \in Active /\ reschedule(API_KEY, r))
                 => LET I == WithInterval(SLOTS, r.new_start, r.new_end)
                        old == BOOKINGS[r.booking_id]
                    IN  /\ Rescheduled(resp') <=> I # {}
                        /\ I = {} => (resp' = NewSlotUnavailable /\ UNCHANGED data)
                        /\ I # {}
                             => /\ SLOTS' = Append(Without(SLOTS, Least(I)), slot_of(old))
                                /\ BOOKINGS'[r.booking_id].provider = old.provider
                                /\ resp'.body.booking.provider = old.provider]_vars

\* a booking was moved onto the interval of a slot seeded for another provider
C14_Witness ==
    /\ Rescheduled(resp)
    /\ resp.body.booking_id \in Active
    /\ \E t \in Seeded :
          /\ t.start = resp.body.booking.start
          /\ t.end = resp.body.booking.end
          /\ t.provider # resp.body.booking.provider
          /\ ~InList(SLOTS, t)

(***************************************************************************)
(* C15: an authorized book answers 201 exactly when the pool has a slot    *)
(* equal to the request's start, end and provider (compared as they are),  *)
(* and 400 "Slot not available" with pool and table unchanged otherwise;   *)
(* on 201 the pool is the old pool without the slot of least index equal   *)
(* to the triple (one slot fewer, the others in their order), and the      *)
(* table has one record more, equal to the request, the records it had     *)
(* being unchanged.                                                        *)
(***************************************************************************)
EqualTo(l, t) == {i \in 1..Len(l) : l[i] = t}

\* the part of C15 that does not count the records of the table
C15_BookEffect ==
    [][(resp' # resp \/ data' # data)
         => \A r \in BookRequest :
              (Authorized(API_KEY) /\ book(API_KEY, r))
                 => LET I == EqualTo(SLOTS, slot_of(r))
                    IN  /\ Created(resp') <=> I # {}
                        /\ I = {} => (resp' = SlotUnavailable /\ UNCHANGED data)
                        /\ I # {}
                             => /\ SLOTS' = Without(SLOTS, Least(I))
                                /\ Len(SLOTS') = Len(SLOTS) - 1
                                /\ resp'.body.booking_id \in DOMAIN BOOKINGS'
                                /\ BOOKINGS'[resp'.body.booking_id] = r
                                /\ resp'.body.booking = r
                                /\ MESSAGES' = MESSAGES]_vars

C15_BookAddsOneRecord ==
    [][(resp' # resp \/ data' # data)
         => \A r \in BookRequest :
              (Authorized(API_KEY) /\ book(API_KEY, r))
                 => LET I == EqualTo(SLOTS, slot_of(r))
                    IN  /\ Created(resp') <=> I # {}
                        /\ I = {} => (resp' = SlotUnavailable /\ UNCHANGED data)
                        /\ I # {}
                             => /\ SLOTS' = Without(SLOTS, Least(I))
                                /\ Len(SLOTS') = Len(SLOTS) - 1
                                /\ Cardinality(DOMAIN BOOKINGS')
                                     = Cardinality(DOMAIN BOOKINGS) + 1
                                /\ BOOKINGS'[resp'.body.booking_id] = r
                                /\ \A b \in DOMAIN BOOKINGS :
                                      b \in DOMAIN BOOKINGS' /\ BOOKINGS'[b] = BOOKINGS[b]]_vars

(***************************************************************************)
(* C16: the 12 seeded slots have 12 distinct (start, end) pairs, and when  *)
(* no generated id is that of an active booking, every seeded pair is held *)
(* by exactly one entity, a slot of the pool or an active booking: pool    *)
(* and table together count as many entries as were seeded, no two slots   *)
(* of the pool are equal, no two active bookings have the same interval,   *)
(* and the pool is short enough for the listing to show all of it.         *)
(***************************************************************************)
PairOf(x) == <<x.start, x.end>>
SeededPairs == {PairOf(seed_slots[i]) : i \in 1..Len(seed_slots)}
SlotsHolding(pair) == {i \in 1..Len(SLOTS) : PairOf(SLOTS[i]) = pair}
BookingsHolding(pair) == {b \in Active : PairOf(BOOKINGS[b]) = pair}

C16_Conservation ==
    /\ Len(AllSeeded) = 12
    /\ Cardinality({PairOf(AllSeeded[i]) : i \in 1..Len(AllSeeded)}) = 12
    /\ \A pair \in SeededPairs :
          Cardinality(SlotsHolding(pair)) + Cardinality(BookingsHolding(pair)) = 1
    /\ \A i \in 1..Len(SLOTS) : PairOf(SLOTS[i]) \in SeededPairs
    /\ \A b \in Active : PairOf(BOOKINGS[b]) \in SeededPairs
    /\ Len(SLOTS) + Cardinality(Active) = Len(seed_slots)
    /\ \A i, j \in 1..Len(SLOTS) : SLOTS[i] = SLOTS[j] => i = j
    /\ \A b, c \in Active : PairOf(BOOKINGS[b]) = PairOf(BOOKINGS[c]) => b = c
    /\ Len(SLOTS) <= 20
    /\ list_slots_result(None, None) = SLOTS

\* two bookings are active, one of them moved onto an interval seeded for
\* the other provider, and a canceled slot is back in the pool
C16_Witness ==
    /\ Cardinality(Active) = 2
    /\ \E b \in Active : slot_of(BOOKINGS[b]) \notin Seeded
    /\ Len(SLOTS) > 0
    /\ SLOTS[Len(SLOTS)] # seed_slots[Len(seed_slots)]

(***************************************************************************)
(* C17: of two concurrent book requests for the same triple, made in the   *)
(* seeded state, at most one stores a booking: when both found the slot,   *)
(* the one that comes second to SLOTS.remove dies there (500) and stores   *)
(* nothing, so the table never holds two bookings of the triple.           *)
(***************************************************************************)
SameTriple(p, q) ==
    /\ p # q
    /\ loc[p].req # None /\ loc[q].req # None
    /\ slot_of(loc[p].req[1]) = slot_of(loc[q].req[1])

C17_OneBookWins ==
    \A p, q \in Procs :
        SameTriple(p, q)
            => /\ ~(loc[p].status = 201 /\ loc[q].status = 201)
               /\ ~(pc[p] = "bk_insert" /\ pc[q] = "bk_insert")
               /\ ~(pc[p] = "bk_insert" /\ loc[q].status = 201)
               /\ Cardinality({b \in Active :
                                 slot_of(BOOKINGS[b]) = slot_of(loc[p].req[1])}) <= 1
               /\ (/\ pc[p] = "done" /\ pc[q] = "done"
                   /\ loc[p].match # None /\ loc[q].match # None)
                     => {loc[p].status, loc[q].status} = {201, 500}

\* both requests found the same slot; one stored its booking, the other died
\* at the removal
C17_Witness ==
    \E p, q \in Procs :
        /\ SameTriple(p, q)
        /\ loc[p].match # None /\ loc[p].match = loc[q].match
        /\ loc[p].status = 201 /\ loc[q].status = 500
        /\ Cardinality(Active) = 1

(***************************************************************************)
(* C18: of two concurrent cancel requests for the same active id, at most  *)
(* one appends the booking's slot: when both passed the membership test,   *)
(* the one that comes second to BOOKINGS.pop dies there (500) and appends  *)
(* nothing, so the pool never holds the slot twice.                        *)
(***************************************************************************)
SameId(p, q) ==
    /\ p # q
    /\ loc[p].req # None /\ loc[q].req # None
    /\ loc[p].req[1].booking_id = loc[q].req[1].booking_id

C18_OneCancelAppends ==
    /\ \A i, j \in 1..Len(SLOTS) : SLOTS[i] = SLOTS[j] => i = j
    /\ \A p, q \in Procs :
          SameId(p, q)
              => /\ ~(loc[p].status = 200 /\ loc[q].status = 200)
                 /\ ~(pc[p] = "cn_append" /\ pc[q] = "cn_append")
                 /\ ~(pc[p] = "cn_append" /\ loc[q].status = 200)
                 /\ (/\ pc[p] = "done" /\ pc[q] = "done"
                     /\ loc[p].status # 404 /\ loc[q].status # 404)
                       => /\ {loc[p].status, loc[q].status} = {200, 500}
                          /\ \A r \in Procs :
                                loc[r].old # None
                                  => Cardinality(EqualTo(SLOTS, slot_of(loc[r].old[1]))) = 1

\* both requests passed the membership test; one returned the slot, the other
\* died at the pop
C18_Witness ==
    \E p, q \in Procs :
        /\ SameId(p, q)
        /\ loc[p].status = 200 /\ loc[q].status = 500
        /\ InList(SLOTS, slot_of(loc[p].old[1]))

====
